---- MODULE Spec2Model ----
(***************************************************************************)
(* Climate skill: the intent router (process_request), the parameter       *)
(* resolver (find_parameters), the device directory lookup (get_devices)   *)
(* and the MQTT command dispatcher (_send_mqtt_commands) of                *)
(* private_assistant_climate_skill, as a state machine.                    *)
(***************************************************************************)
EXTENDS Integers, Sequences, FiniteSets, TLC

VARIABLES
    global_devices,  \* BaseSkill.global_devices: the registry list read by get_devices
    request,         \* the IntentRequest last handed to process_request
    outcome,         \* how process_request ended: "none", "returned" or "raised"
    parameters,      \* the Parameters the device-set / help handler worked with
    replies,         \* the send_response calls made so far for the request
    reply_task,      \* the task add_task(send_response(answer)) created
    mqtt_task,       \* the task add_task(_send_mqtt_commands(...)) created
    published,       \* the mqtt_client.publish calls made so far for the request
    call,            \* the last direct call of a method and what it returned
    trace            \* what process_request did: handlers invoked, lookups, warnings

vars == <<global_devices, request, outcome, parameters, replies, reply_task,
          mqtt_task, published, call, trace>>

(***************************************************************************)
(* Bounds of the model.                                                    *)
(***************************************************************************)
MaxDevices == 3     \* longest registry list
MaxEntities == 2    \* most entities one classified intent carries
MaxRooms == 2       \* longest rooms argument of a direct get_devices call

Range(s) == {s[i] : i \in 1..Len(s)}

SeqsUpTo(S, n) == UNION {[1..k -> S] : k \in 0..n}

(***************************************************************************)
(* Intent types (private_assistant_commons.IntentType).  DEVICE_ON stands  *)
(* for every type the skill does not support.                              *)
(***************************************************************************)
DEVICE_SET == "DEVICE_SET"
SYSTEM_HELP == "SYSTEM_HELP"
DEVICE_ON == "DEVICE_ON"

IntentTypes == {DEVICE_SET, SYSTEM_HELP, DEVICE_ON}

(***************************************************************************)
(* Rooms.  "garage" is a room no registry record belongs to.               *)
(***************************************************************************)
RoomNames == {"study", "office"}

ClientRooms == {"study", "garage"}

AllRooms == RoomNames \cup ClientRooms

NoRoom == "<no room>"

(***************************************************************************)
(* Entities.  A normalized value is a Python value: an int, a float (kept  *)
(* in tenths) or a str.                                                    *)
(***************************************************************************)
PyIntValue(n) == [t |-> "int", s |-> "", n |-> n]

PyFloatTenths(n) == [t |-> "float", s |-> "", n |-> n]

PyStr(s) == [t |-> "str", s |-> s, n |-> 0]

NoMetadata == [unit |-> "", device_type |-> "", is_generic |-> FALSE]

Entity(type, value, metadata) ==
    [type |-> type, normalized_value |-> value, metadata |-> metadata]

RoomEntities == {Entity("room", PyStr(r), NoMetadata) : r \in RoomNames}

NumberEntities ==
    { Entity("number", PyIntValue(22), [NoMetadata EXCEPT !.unit = "celsius"]),
      Entity("number", PyIntValue(0), [NoMetadata EXCEPT !.unit = "celsius"]),
      Entity("number", PyFloatTenths(775), [NoMetadata EXCEPT !.unit = "brightness"]),
      Entity("number", PyStr("abc"), [NoMetadata EXCEPT !.unit = "celsius"]) }

DeviceEntities ==
    { Entity("device", PyStr("thermostat"),
             [NoMetadata EXCEPT !.device_type = "thermostat"]),
      Entity("device", PyStr("thermostat"),
             [NoMetadata EXCEPT !.device_type = "thermostat", !.is_generic = TRUE]),
      Entity("device", PyStr("curtains"),
             [NoMetadata EXCEPT !.device_type = "curtain"]) }

(***************************************************************************)
(* ClassifiedIntent.entities: a dict from category key to entity list.  A  *)
(* key that is absent reads as the empty list (entities.get(key, [])).     *)
(* The keys are the ones the skill reads ("rooms", "numbers") and the      *)
(* EntityType values the classifier and the tests use ("room", "number",   *)
(* "device").                                                              *)
(***************************************************************************)
EntityKeys == {"rooms", "room", "numbers", "number", "device"}

EmptyEntities == [k \in EntityKeys |-> <<>>]

Slots ==
    ({"rooms", "room"} \X RoomEntities)
        \cup ({"numbers", "number"} \X NumberEntities)
        \cup ({"device"} \X DeviceEntities)

RECURSIVE EntitiesUpTo(_)
EntitiesUpTo(n) ==
    IF n = 0
    THEN {EmptyEntities}
    ELSE LET P == EntitiesUpTo(n - 1)
         IN  P \cup {[e EXCEPT ![s[1]] = Append(@, s[2])] : e \in P, s \in Slots}

EntityMaps == EntitiesUpTo(MaxEntities)

Requests ==
    [intent_type : IntentTypes, entities : EntityMaps, room : ClientRooms]

NoRequest == [intent_type |-> "", entities |-> EmptyEntities, room |-> ""]

(***************************************************************************)
(* MQTT topics are strings, modelled as sequences of characters.  The      *)
(* named characters are NUL (chr 0), LF (newline), SP (space), SUB         *)
(* (chr 26) and DEL (chr 127); every other character stands for itself.    *)
(***************************************************************************)
MAX_TOPIC_LENGTH == 128

\* MQTT_TOPIC_REGEX = [\$#\+\s\0-\31]+ : "$", "#", "+", whitespace, and the
\* characters chr(0)..chr(0o31) = chr(25).
RegexChars == {"$", "#", "+", "SP", "LF", "NUL"}

WhitespaceChars == {"SP", "LF"}

\* A faulty MQTT_TOPIC_REGEX: the class [\$#\s\0-\31], without "+".
MQTT_TOPIC_REGEX_no_plus(value) ==
    {i \in 1..Len(value) : value[i] \in RegexChars \ {"+"}}

MQTT_TOPIC_REGEX(value) == {i \in 1..Len(value) : value[i] \in RegexChars}

RECURSIVE LStrip(_)
LStrip(value) ==
    IF value # <<>> /\ Head(value) \in WhitespaceChars
    THEN LStrip(Tail(value))
    ELSE value

RECURSIVE RStrip(_)
RStrip(value) ==
    IF value # <<>> /\ value[Len(value)] \in WhitespaceChars
    THEN RStrip(SubSeq(value, 1, Len(value) - 1))
    ELSE value

Strip(value) == RStrip(LStrip(value))

\* ClimateSkillDevice.validate_topic: the stored topic, or a ValueError.
\* A faulty validate_topic: len(value) >= MAX_TOPIC_LENGTH is refused.
validate_topic_short(value) ==
    IF MQTT_TOPIC_REGEX(value) # {}
    THEN [ok |-> FALSE, value |-> <<>>]
    ELSE IF Len(value) >= MAX_TOPIC_LENGTH
         THEN [ok |-> FALSE, value |-> <<>>]
         ELSE [ok |-> TRUE, value |-> Strip(value)]

validate_topic(value) ==
    IF MQTT_TOPIC_REGEX(value) # {}
    THEN [ok |-> FALSE, value |-> <<>>]
    ELSE IF Len(value) > MAX_TOPIC_LENGTH
         THEN [ok |-> FALSE, value |-> <<>>]
         ELSE [ok |-> TRUE, value |-> Strip(value)]

\* The topics handed to the constructor: every string of at most MaxTopicLen
\* characters of TopicChars, and the strings "aaa...a" of MAX_TOPIC_LENGTH and
\* MAX_TOPIC_LENGTH + 1 characters.
MaxTopicLen == 3

TopicChars == {"a", "/", "$", "#", "+", "SP", "LF", "NUL", "SUB", "DEL"}

Pad(n) == [i \in 1..n |-> "a"]

Topics ==
    SeqsUpTo(TopicChars, MaxTopicLen)
        \cup {Pad(MAX_TOPIC_LENGTH), Pad(MAX_TOPIC_LENGTH + 1)}

(***************************************************************************)
(* Payload templates are Jinja2 sources, modelled as sequences of parts:   *)
(* literal text, the expression {{ temperature }}, or an unclosed          *)
(* expression, on which jinja2.Template raises TemplateSyntaxError.        *)
(***************************************************************************)
TemperatureExpr == "{{ temperature }}"

UnclosedExpr == "{{ temperature"

DefaultPayloadTemplate == <<"{\"occupied_heating_setpoint\": ", TemperatureExpr, "}">>

CustomPayloadTemplate == <<"{\"current_heating_setpoint\": ", TemperatureExpr, "}">>

BrokenPayloadTemplate == <<"{\"occupied_heating_setpoint\": ", UnclosedExpr>>

RECURSIVE RenderParts(_, _)
RenderParts(parts, temperature) ==
    IF parts = <<>>
    THEN ""
    ELSE (IF Head(parts) = TemperatureExpr
          THEN ToString(temperature)
          ELSE Head(parts)) \o RenderParts(Tail(parts), temperature)

\* jinja2.Template(source).render(temperature=t): the text, or an exception.
RenderPayload(source, temperature) ==
    IF UnclosedExpr \in Range(source)
    THEN [ok |-> FALSE, text |-> ""]
    ELSE [ok |-> TRUE, text |-> RenderParts(source, temperature)]

(***************************************************************************)
(* Registry records (GlobalDevice).  room = NoRoom is a record without a   *)
(* room; topic = <<>> is a record whose device_attributes hold no (or an   *)
(* empty) "topic"; has_template says whether device_attributes hold a      *)
(* "payload_set_template".                                                 *)
(***************************************************************************)
GlobalDevice(name, room, topic, has_template, template) ==
    [name |-> name, room |-> room, topic |-> topic,
     has_template |-> has_template, template |-> template]

Catalogue ==
    { GlobalDevice("main", "study", <<"s", "/", "1">>, FALSE, <<>>),
      GlobalDevice("window", "study", <<"s", "/", "2">>, TRUE, CustomPayloadTemplate),
      GlobalDevice("main", "office", <<"o", "/", "1">>, TRUE, BrokenPayloadTemplate),
      GlobalDevice("floor", "office", <<>>, FALSE, <<>>),
      GlobalDevice("hall", NoRoom, <<"h", "/", "1">>, FALSE, <<>>) }

\* Registries whose records differ in their "topic" attribute: a legal topic,
\* no topic, a topic with a wildcard, a topic that is too long.  The record at
\* position i is named "d<i>".
RecordTopics ==
    {<<"a">>, <<>>, <<"a", "/", "#">>, Pad(MAX_TOPIC_LENGTH + 1)}

TopicRegistries ==
    UNION {
        {[i \in 1..k |-> GlobalDevice("d" \o ToString(i), rooms[i], topics[i], FALSE, <<>>)] :
            rooms \in [1..k -> RoomNames], topics \in [1..k -> RecordTopics]} :
        k \in 0..MaxDevices}

IsInjective(s) == \A i, j \in 1..Len(s) : s[i] = s[j] => i = j

Registries == {r \in SeqsUpTo(Catalogue, MaxDevices) : IsInjective(r)}

\* ClimateSkillDevice(topic=..., alias=..., room=..., payload_set_template=...):
\* the device with the validated topic, or a validation error.
ClimateSkillDevice(topic, alias, room, payload_set_template) ==
    LET validated == validate_topic(topic)
    IN  IF ~validated.ok
        THEN [ok |-> FALSE, device |-> <<>>]
        ELSE [ok |-> TRUE,
              device |-> [topic |-> validated.value,
                          alias |-> alias,
                          room |-> room,
                          payload_set_template |-> payload_set_template]]

\* ClimateSkillDevice.from_global_device: the device, or a ValueError.
from_global_device(global_device) ==
    IF global_device.topic = <<>>
    THEN [ok |-> FALSE, device |-> <<>>]
    ELSE ClimateSkillDevice(global_device.topic,
                            global_device.name,
                            IF global_device.room # NoRoom
                            THEN global_device.room
                            ELSE "",
                            IF global_device.has_template
                            THEN global_device.template
                            ELSE DefaultPayloadTemplate)

\* The loop of get_devices over a registry list.
RECURSIVE FilterDevices(_, _)
FilterDevices(registry, rooms) ==
    IF registry = <<>>
    THEN <<>>
    ELSE LET global_device == Head(registry)
             rest == FilterDevices(Tail(registry), rooms)
         IN  IF global_device.room # NoRoom /\ global_device.room \in Range(rooms)
             THEN LET climate_device == from_global_device(global_device)
                  IN  IF climate_device.ok
                      THEN <<climate_device.device>> \o rest
                      ELSE rest
             ELSE rest

\* A faulty get_devices: room by room, in the caller's room order.
RECURSIVE get_devices_by_room(_, _)
get_devices_by_room(registry, rooms) ==
    IF rooms = <<>>
    THEN <<>>
    ELSE FilterDevices(registry, <<Head(rooms)>>)
             \o get_devices_by_room(registry, Tail(rooms))

\* A faulty get_devices: the room of a record is not compared with rooms.
get_devices_any_room(registry, rooms) ==
    FilterDevices(registry, <<"study", "office">>)

\* A faulty loop of get_devices: it suspends after every record and reads
\* self.global_devices[i] anew, so a refresh may land after any record.
SnapshotsSeen_per_record(old, new) ==
    {old, new}
        \cup {SubSeq(old, 1, k) \o SubSeq(new, k + 1, Len(new)) : k \in 0..Len(old)}

\* The lists the loop of get_devices can iterate over when a refresh from old
\* to new is triggered while the call is in flight.  The body of get_devices
\* holds no await: no other task runs between its first and its last
\* statement, so the refresh lands after the call (old) or before it (new).
SnapshotsSeen(old, new) == {old, new}

\* A faulty get_devices: the first record that cannot be converted ends the
\* loop (the ValueError is not caught per record).
RECURSIVE get_devices_stop_at_bad(_, _)
get_devices_stop_at_bad(registry, rooms) ==
    IF registry = <<>>
    THEN <<>>
    ELSE LET global_device == Head(registry)
         IN  IF global_device.room # NoRoom /\ global_device.room \in Range(rooms)
             THEN LET climate_device == from_global_device(global_device)
                  IN  IF climate_device.ok
                      THEN <<climate_device.device>>
                               \o get_devices_stop_at_bad(Tail(registry), rooms)
                      ELSE <<>>
             ELSE get_devices_stop_at_bad(Tail(registry), rooms)

\* ClimateSkill.get_devices, reading the registry list as it is now.
get_devices(registry, rooms) == FilterDevices(registry, rooms)

(***************************************************************************)
(* Parameters (pydantic model): temperature = 0, targets = [], rooms = []. *)
(***************************************************************************)
Parameters == [temperature |-> 0, targets |-> <<>>, rooms |-> <<>>]

\* Python's int(x): an int is itself, a float is truncated towards zero, and
\* a str that is no numeral (every str of this model) raises ValueError.
PyInt(value) ==
    CASE value.t = "int" -> [ok |-> TRUE, n |-> value.n]
      [] value.t = "float" ->
            [ok |-> TRUE,
             n |-> IF value.n >= 0 THEN value.n \div 10 ELSE -((-value.n) \div 10)]
      [] OTHER -> [ok |-> FALSE, n |-> 0]

NormalizedValues(entity_list) ==
    [i \in 1..Len(entity_list) |-> entity_list[i].normalized_value.s]

\* The entity category keys find_parameters reads.
RoomsKey == "rooms"

NumbersKey == "numbers"

\* A faulty ResolveRooms: no fallback to the current room.
ResolveRooms_no_fallback(entities, current_room) ==
    NormalizedValues(entities[RoomsKey])

\* The rooms of find_parameters: the room entities' values, or the current
\* room when there is none.
ResolveRooms(entities, current_room) ==
    LET room_entities == entities[RoomsKey]
    IN  IF room_entities # <<>>
        THEN NormalizedValues(room_entities)
        ELSE <<current_room>>

\* ClimateSkill.find_parameters: the Parameters returned, or raised = TRUE
\* when int() raises on the first number entity.
find_parameters(registry, intent_type, entities, current_room) ==
    LET rooms == ResolveRooms(entities, current_room)
        devices == get_devices(registry, rooms)
        number_entities == entities[NumbersKey]
    IN  IF intent_type = DEVICE_SET
        THEN IF number_entities # <<>>
             THEN LET temperature == PyInt(number_entities[1].normalized_value)
                  IN  IF temperature.ok
                      THEN [raised |-> FALSE,
                            parameters |-> [temperature |-> temperature.n,
                                            targets |-> devices,
                                            rooms |-> rooms]]
                      ELSE [raised |-> TRUE, parameters |-> Parameters]
             ELSE [raised |-> FALSE,
                   parameters |-> [temperature |-> 0,
                                   targets |-> devices,
                                   rooms |-> rooms]]
        ELSE [raised |-> FALSE,
              parameters |-> [temperature |-> 0, targets |-> <<>>, rooms |-> rooms]]

\* A faulty second call: the targets are added to those of the call before,
\* as if Parameters() shared its default list between instances.
find_parameters_again_shared(previous, registry, intent_type, entities, current_room) ==
    LET found == find_parameters(registry, intent_type, entities, current_room)
    IN  [found EXCEPT !.parameters.targets = previous.parameters.targets \o @]

\* find_parameters called after an earlier call returned `previous`: it starts
\* from a new Parameters() and reads nothing the earlier call left behind.
find_parameters_again(previous, registry, intent_type, entities, current_room) ==
    find_parameters(registry, intent_type, entities, current_room)

(***************************************************************************)
(* Replies.  A reply is either a fixed text or the rendering of a response *)
(* template with the intent type and the parameters; the template engine   *)
(* and the template files are outside the skill's code.                    *)
(***************************************************************************)
Text(text) == [text |-> text, template |-> "", parameters |-> Parameters]

Rendering(template, params) ==
    [text |-> "", template |-> template, parameters |-> params]

NOT_FOUND_TEXT == "I couldn't find any climate devices in that room."

NO_TEMPERATURE_TEXT == "Please specify a temperature to set."

UNSUPPORTED_TEXT == "I'm not sure how to handle that request."

APOLOGY_TEXT == "Sorry, I couldn't process your request."

\* self.intent_to_template after _load_templates.
intent_to_template ==
    [t \in {SYSTEM_HELP, DEVICE_SET} |->
        IF t = SYSTEM_HELP THEN "help.j2" ELSE "set_temperature.j2"]

(***************************************************************************)
(* Construction.  The template environment says, for each template name,   *)
(* whether get_template returns the template ("ok"), raises                *)
(* TemplateNotFound ("missing") or raises another error, such as           *)
(* TemplateSyntaxError ("broken").                                         *)
(***************************************************************************)
template_mappings ==
    <<[intent_type |-> SYSTEM_HELP, template_name |-> "help.j2"],
      [intent_type |-> DEVICE_SET, template_name |-> "set_temperature.j2"]>>

TemplateEnvs == [{"help.j2", "set_temperature.j2"} -> {"ok", "missing", "broken"}]

NoSkill == [ok |-> FALSE, error |-> "", intent_to_template |-> <<>>, failed |-> <<>>]

\* The loop of _load_templates from a position of template_mappings on, and
\* the check of failed_templates after it.
RECURSIVE LoadFrom(_, _, _, _)
LoadFrom(template_env, mappings, loaded, failed_templates) ==
    IF mappings = <<>>
    THEN IF failed_templates # <<>>
         THEN [ok |-> FALSE, error |-> "RuntimeError",
               intent_to_template |-> loaded, failed |-> failed_templates]
         ELSE [ok |-> TRUE, error |-> "",
               intent_to_template |-> loaded, failed |-> failed_templates]
    ELSE LET intent_type == Head(mappings).intent_type
             template_name == Head(mappings).template_name
         IN  CASE template_env[template_name] = "ok" ->
                     LoadFrom(template_env, Tail(mappings),
                              loaded @@ (intent_type :> template_name),
                              failed_templates)
               [] template_env[template_name] = "missing" ->
                     LoadFrom(template_env, Tail(mappings), loaded,
                              Append(failed_templates, template_name))
               [] OTHER ->
                     [ok |-> FALSE, error |-> "TemplateSyntaxError",
                      intent_to_template |-> loaded, failed |-> failed_templates]

\* A faulty _load_templates: the failed templates are logged only.
_load_templates_lenient(template_env) ==
    [LoadFrom(template_env, template_mappings, <<>>, <<>>) EXCEPT
        !.ok = TRUE, !.error = ""]

\* ClimateSkill.__init__ up to and with _load_templates: the skill with its
\* intent_to_template, or the error that ends the construction.
_load_templates(template_env) ==
    LoadFrom(template_env, template_mappings, <<>>, <<>>)

\* A faulty _render_response: an intent type without a template is answered
\* with the help template.
_render_response_help(intent_type, params) ==
    IF intent_type \in DOMAIN intent_to_template
    THEN Rendering(intent_to_template[intent_type], params)
    ELSE Rendering(intent_to_template[SYSTEM_HELP], params)

\* ClimateSkill._render_response
_render_response(intent_type, params) ==
    IF intent_type \in DOMAIN intent_to_template
    THEN Rendering(intent_to_template[intent_type], params)
    ELSE Text(APOLOGY_TEXT)

(***************************************************************************)
(* Background tasks created with add_task.                                 *)
(***************************************************************************)
NoReplyTask == [status |-> "none", answer |-> Text("")]

NoMqttTask ==
    [status |-> "none", intent_type |-> "", parameters |-> Parameters, next |-> 0,
     errors |-> <<>>]

ReplyTask(answer) == [status |-> "pending", answer |-> answer]

MqttTask(intent_type, params) ==
    [status |-> "pending", intent_type |-> intent_type, parameters |-> params,
     next |-> 0, errors |-> <<>>]

\* What a handler leaves behind when it returns or raises.
Effect(how, params, sent, reply, mqtt) ==
    [outcome |-> how, parameters |-> params, replies |-> sent,
     reply_task |-> reply, mqtt_task |-> mqtt, trace |-> <<>>]

\* An entry of the trace: a handler invoked with the request, a device lookup
\* made for it, or a warning logged for it.
Event(name, intent_request) == [name |-> name, request |-> intent_request]

\* The effect of a handler, with what was invoked on the way to it.
Traced(events, effect) == [effect EXCEPT !.trace = events \o @]

\* A faulty _handle_device_set: the setpoint is checked before the targets.
_handle_device_set_temperature_first(registry, intent_request) ==
    LET found == find_parameters(registry, DEVICE_SET, intent_request.entities,
                                 intent_request.room)
        params == found.parameters
    IN  IF found.raised
        THEN Effect("raised", Parameters, <<>>, NoReplyTask, NoMqttTask)
        ELSE IF params.temperature = 0
        THEN Effect("returned", params, <<Text(NO_TEMPERATURE_TEXT)>>, NoReplyTask,
                    NoMqttTask)
        ELSE IF params.targets = <<>>
        THEN Effect("returned", params, <<Text(NOT_FOUND_TEXT)>>, NoReplyTask,
                    NoMqttTask)
        ELSE Effect("returned", params, <<>>,
                    ReplyTask(_render_response(DEVICE_SET, params)),
                    MqttTask(DEVICE_SET, params))

\* A faulty _handle_device_set: the sentinel setpoint 0 is not rejected.
_handle_device_set_no_sentinel(registry, intent_request) ==
    LET found == find_parameters(registry, DEVICE_SET, intent_request.entities,
                                 intent_request.room)
        params == found.parameters
    IN  IF found.raised
        THEN Effect("raised", Parameters, <<>>, NoReplyTask, NoMqttTask)
        ELSE IF params.targets = <<>>
        THEN Effect("returned", params, <<Text(NOT_FOUND_TEXT)>>, NoReplyTask,
                    NoMqttTask)
        ELSE Effect("returned", params, <<>>,
                    ReplyTask(_render_response(DEVICE_SET, params)),
                    MqttTask(DEVICE_SET, params))

\* A faulty _handle_device_set: the reply is awaited before the dispatch is
\* scheduled.
_handle_device_set_awaits_reply(registry, intent_request) ==
    LET found == find_parameters(registry, DEVICE_SET, intent_request.entities,
                                 intent_request.room)
        params == found.parameters
    IN  Traced(<<Event("_handle_device_set", intent_request),
                 Event("get_devices", intent_request)>>,
               IF found.raised
               THEN Effect("raised", Parameters, <<>>, NoReplyTask, NoMqttTask)
               ELSE IF params.targets = <<>>
               THEN Effect("returned", params, <<Text(NOT_FOUND_TEXT)>>, NoReplyTask,
                           NoMqttTask)
               ELSE IF params.temperature = 0
               THEN Effect("returned", params, <<Text(NO_TEMPERATURE_TEXT)>>,
                           NoReplyTask, NoMqttTask)
               ELSE Effect("returned", params,
                           <<_render_response(DEVICE_SET, params)>>,
                           NoReplyTask, MqttTask(DEVICE_SET, params)))

\* A faulty _handle_device_set: no return after the not-found reply, so the
\* setpoint check replies as well.
_handle_device_set_no_return(registry, intent_request) ==
    LET found == find_parameters(registry, DEVICE_SET, intent_request.entities,
                                 intent_request.room)
        params == found.parameters
    IN  Traced(<<Event("_handle_device_set", intent_request),
                 Event("get_devices", intent_request)>>,
               IF found.raised
               THEN Effect("raised", Parameters, <<>>, NoReplyTask, NoMqttTask)
               ELSE IF params.targets = <<>> /\ params.temperature = 0
               THEN Effect("returned", params,
                           <<Text(NOT_FOUND_TEXT), Text(NO_TEMPERATURE_TEXT)>>,
                           NoReplyTask, NoMqttTask)
               ELSE IF params.targets = <<>>
               THEN Effect("returned", params, <<Text(NOT_FOUND_TEXT)>>,
                           ReplyTask(_render_response(DEVICE_SET, params)),
                           MqttTask(DEVICE_SET, params))
               ELSE IF params.temperature = 0
               THEN Effect("returned", params, <<Text(NO_TEMPERATURE_TEXT)>>,
                           NoReplyTask, NoMqttTask)
               ELSE Effect("returned", params, <<>>,
                           ReplyTask(_render_response(DEVICE_SET, params)),
                           MqttTask(DEVICE_SET, params)))

\* A faulty _handle_device_set: the dispatch is scheduled before the reply.
_handle_device_set_dispatch_first(registry, intent_request) ==
    LET found == find_parameters(registry, DEVICE_SET, intent_request.entities,
                                 intent_request.room)
        params == found.parameters
    IN  Traced(<<Event("_handle_device_set", intent_request),
                 Event("get_devices", intent_request)>>,
               IF found.raised
               THEN Effect("raised", Parameters, <<>>, NoReplyTask, NoMqttTask)
               ELSE IF params.targets = <<>>
               THEN Effect("returned", params, <<Text(NOT_FOUND_TEXT)>>, NoReplyTask,
                           NoMqttTask)
               ELSE IF params.temperature = 0
               THEN Effect("returned", params, <<Text(NO_TEMPERATURE_TEXT)>>,
                           NoReplyTask, NoMqttTask)
               ELSE Traced(<<Event("add_task _send_mqtt_commands", intent_request),
                             Event("add_task send_response", intent_request)>>,
                           Effect("returned", params, <<>>,
                                  ReplyTask(_render_response(DEVICE_SET, params)),
                                  MqttTask(DEVICE_SET, params))))

\* ClimateSkill._handle_device_set
_handle_device_set(registry, intent_request) ==
    LET found == find_parameters(registry, DEVICE_SET, intent_request.entities,
                                 intent_request.room)
        params == found.parameters
    IN  Traced(<<Event("_handle_device_set", intent_request),
                 Event("get_devices", intent_request)>>,
               IF found.raised
               THEN Effect("raised", Parameters, <<>>, NoReplyTask, NoMqttTask)
               ELSE IF params.targets = <<>>
               THEN Effect("returned", params, <<Text(NOT_FOUND_TEXT)>>, NoReplyTask,
                           NoMqttTask)
               ELSE IF params.temperature = 0
               THEN Effect("returned", params, <<Text(NO_TEMPERATURE_TEXT)>>,
                           NoReplyTask, NoMqttTask)
               ELSE Traced(<<Event("add_task send_response", intent_request),
                             Event("add_task _send_mqtt_commands", intent_request)>>,
                           Effect("returned", params, <<>>,
                                  ReplyTask(_render_response(DEVICE_SET, params)),
                                  MqttTask(DEVICE_SET, params))))

\* A faulty _handle_system_help: the rooms are resolved from the entities.
_handle_system_help_resolving(intent_request) ==
    LET params == [Parameters EXCEPT
                      !.rooms = ResolveRooms(intent_request.entities,
                                             intent_request.room)]
    IN  Traced(<<Event("_handle_system_help", intent_request)>>,
               Effect("returned", params, <<>>,
                      ReplyTask(_render_response(SYSTEM_HELP, params)), NoMqttTask))

\* ClimateSkill._handle_system_help
_handle_system_help(intent_request) ==
    LET params == [Parameters EXCEPT !.rooms = <<intent_request.room>>]
    IN  Traced(<<Event("_handle_system_help", intent_request),
                 Event("add_task send_response", intent_request)>>,
               Effect("returned", params, <<>>,
                      ReplyTask(_render_response(SYSTEM_HELP, params)), NoMqttTask))

\* A faulty Route: a request that is no DEVICE_SET gets the help handler.
Route_help_by_default(registry, intent_request) ==
    IF intent_request.intent_type = DEVICE_SET
    THEN _handle_device_set(registry, intent_request)
    ELSE _handle_system_help(intent_request)

\* A faulty Route: a DEVICE_SET request is routed by what its entities hold,
\* and reaches the device-set handler only with an entity under "numbers".
Route_by_entities(registry, intent_request) ==
    IF intent_request.intent_type = DEVICE_SET
           /\ intent_request.entities["numbers"] # <<>>
    THEN _handle_device_set(registry, intent_request)
    ELSE IF intent_request.intent_type = SYSTEM_HELP
    THEN _handle_system_help(intent_request)
    ELSE Traced(<<Event("warning: Unsupported intent type", intent_request)>>,
                Effect("returned", Parameters, <<Text(UNSUPPORTED_TEXT)>>,
                       NoReplyTask, NoMqttTask))

\* ClimateSkill.process_request: the routing on the intent type.
Route(registry, intent_request) ==
    IF intent_request.intent_type = DEVICE_SET
    THEN _handle_device_set(registry, intent_request)
    ELSE IF intent_request.intent_type = SYSTEM_HELP
    THEN _handle_system_help(intent_request)
    ELSE Traced(<<Event("warning: Unsupported intent type", intent_request)>>,
                Effect("returned", Parameters, <<Text(UNSUPPORTED_TEXT)>>,
                       NoReplyTask, NoMqttTask))

(***************************************************************************)
(* The dispatcher, _send_mqtt_commands.  It runs without suspension from   *)
(* one await of mqtt_client.publish to the next.                           *)
(***************************************************************************)
QOS == 1

\* A faulty Publish: the default quality of service, 0.
Publish_qos0(device, payload) ==
    [topic |-> device.topic, payload |-> payload, qos |-> QOS - 1,
     result |-> "inflight"]

\* The call mqtt_client.publish(device.topic, payload, qos=1), in flight.
Publish(device, payload) ==
    [topic |-> device.topic, payload |-> payload, qos |-> QOS, result |-> "inflight"]

\* The error logged for a target when the intent type is not DEVICE_SET.
UNKNOWN_INTENT_ERROR == "Unknown intent type for MQTT command"

\* A faulty loop: the payload is rendered and published for every intent type.
RECURSIVE RunToPublish_any_intent(_, _, _)
RunToPublish_any_intent(task, i, sent) ==
    IF i > Len(task.parameters.targets)
    THEN [task |-> [task EXCEPT !.status = "done", !.next = i], published |-> sent]
    ELSE LET device == task.parameters.targets[i]
             payload == RenderPayload(device.payload_set_template,
                                      task.parameters.temperature)
         IN  IF payload.ok
             THEN [task |-> [task EXCEPT !.status = "publishing", !.next = i],
                   published |-> Append(sent, Publish(device, payload.text))]
             ELSE [task |-> [task EXCEPT !.status = "raised", !.next = i],
                   published |-> sent]

\* The loop from target i on, up to the next publish call, the end of the
\* loop, or an exception of the payload rendering.
RECURSIVE RunToPublish(_, _, _)
RunToPublish(task, i, sent) ==
    IF i > Len(task.parameters.targets)
    THEN [task |-> [task EXCEPT !.status = "done", !.next = i], published |-> sent]
    ELSE IF task.intent_type = DEVICE_SET
    THEN LET device == task.parameters.targets[i]
             payload == RenderPayload(device.payload_set_template,
                                      task.parameters.temperature)
         IN  IF payload.ok
             THEN [task |-> [task EXCEPT !.status = "publishing", !.next = i],
                   published |-> Append(sent, Publish(device, payload.text))]
             ELSE [task |-> [task EXCEPT !.status = "raised", !.next = i],
                   published |-> sent]
    ELSE RunToPublish([task EXCEPT !.errors = Append(@, UNKNOWN_INTENT_ERROR)],
                      i + 1, sent)

\* A faulty StartDispatch: the publishes to all targets are started together.
StartDispatch_all_at_once(task, sent) ==
    [task |-> [task EXCEPT !.status = "publishing",
                           !.next = Len(task.parameters.targets)],
     published |->
         sent \o [i \in 1..Len(task.parameters.targets) |->
                     Publish(task.parameters.targets[i],
                             RenderPayload(
                                 task.parameters.targets[i].payload_set_template,
                                 task.parameters.temperature).text)]]

\* A faulty StartDispatch: an empty target list is an error.
StartDispatch_empty_raises(task, sent) ==
    IF task.parameters.targets = <<>>
    THEN [task |-> [task EXCEPT !.status = "raised"], published |-> sent]
    ELSE RunToPublish(task, 1, sent)

\* The task up to its first publish call.
StartDispatch(task, sent) ==
    IF task.parameters.targets = <<>>
    THEN [task |-> [task EXCEPT !.status = "done"], published |-> sent]
    ELSE RunToPublish(task, 1, sent)

\* A faulty AfterPublish: the exception of a failed publish is not caught and
\* ends the task.
AfterPublish_uncaught(task, sent, result) ==
    IF result = "failed"
    THEN [task |-> [task EXCEPT !.status = "raised"],
          published |-> [sent EXCEPT ![Len(sent)].result = result]]
    ELSE RunToPublish(task, task.next + 1, [sent EXCEPT ![Len(sent)].result = result])

\* The publish in flight returns (result "ok") or raises (result "failed",
\* caught and logged); the loop goes on either way.
AfterPublish(task, sent, result) ==
    RunToPublish(task, task.next + 1, [sent EXCEPT ![Len(sent)].result = result])

(***************************************************************************)
(* The climate-relevance filter, _is_climate_intent.  A device entity      *)
(* whose device type is a thermostat/HVAC type is checked first, then a    *)
(* number entity whose unit is a temperature unit; either is sufficient.   *)
(***************************************************************************)
ClimateDeviceTypes == {"thermostat", "hvac"}

TemperatureUnits == {"celsius"}

\* A faulty filter: both signals are required.
_is_climate_intent_both(entities) ==
    /\ \E i \in 1..Len(entities["device"]) :
          entities["device"][i].metadata.device_type \in ClimateDeviceTypes
    /\ \E i \in 1..Len(entities["number"]) :
          entities["number"][i].metadata.unit \in TemperatureUnits

_is_climate_intent(entities) ==
    IF \E i \in 1..Len(entities["device"]) :
           entities["device"][i].metadata.device_type \in ClimateDeviceTypes
    THEN TRUE
    ELSE IF \E i \in 1..Len(entities["number"]) :
                entities["number"][i].metadata.unit \in TemperatureUnits
         THEN TRUE
         ELSE FALSE

(***************************************************************************)
(* State machine.                                                          *)
(***************************************************************************)
NoCall ==
    [op |-> "", intent_type |-> "", entities |-> EmptyEntities, room |-> "",
     rooms |-> <<>>, devices |-> <<>>,
     found |-> [raised |-> FALSE, parameters |-> Parameters], climate |-> FALSE,
     topic |-> <<>>, built |-> [ok |-> FALSE, device |-> <<>>],
     template_env |-> <<>>, skill |-> NoSkill,
     parameters |-> Parameters, answer |-> Text(""),
     old |-> <<>>, new |-> <<>>, again |-> [raised |-> FALSE, parameters |-> Parameters]]

Init ==
    /\ global_devices = <<>>
    /\ request = NoRequest
    /\ outcome = "none"
    /\ parameters = Parameters
    /\ replies = <<>>
    /\ reply_task = NoReplyTask
    /\ mqtt_task = NoMqttTask
    /\ published = <<>>
    /\ call = NoCall
    /\ trace = <<>>

\* No request has reached process_request and no method has been called yet.
\* A behaviour follows one request, or one direct call: the skill keeps no
\* state from one request to the next but global_devices.
Idle == request = NoRequest /\ call = NoCall

\* The registry list is replaced as a whole (device cache refresh).
Refresh ==
    /\ Idle
    /\ \E registry \in Registries : global_devices' = registry
    /\ UNCHANGED <<request, outcome, parameters, replies, reply_task, mqtt_task,
                   published, call, trace>>

\* A faulty process_request: the records looked at are taken off the
\* registry list.
process_request_consuming ==
    /\ Idle
    /\ \E intent_request \in Requests :
          LET effect == Route(global_devices, intent_request)
          IN  /\ request' = intent_request
              /\ outcome' = effect.outcome
              /\ parameters' = effect.parameters
              /\ replies' = effect.replies
              /\ reply_task' = effect.reply_task
              /\ mqtt_task' = effect.mqtt_task
              /\ trace' = effect.trace
    /\ published' = <<>>
    /\ global_devices' = <<>>
    /\ UNCHANGED call

\* ClimateSkill.process_request on one inbound request.
process_request ==
    /\ Idle
    /\ \E intent_request \in Requests :
          LET effect == Route(global_devices, intent_request)
          IN  /\ request' = intent_request
              /\ outcome' = effect.outcome
              /\ parameters' = effect.parameters
              /\ replies' = effect.replies
              /\ reply_task' = effect.reply_task
              /\ mqtt_task' = effect.mqtt_task
              /\ trace' = effect.trace
    /\ published' = <<>>
    /\ UNCHANGED <<global_devices, call>>

\* The task send_response(answer) runs.
SendResponse ==
    /\ reply_task.status = "pending"
    /\ replies' = Append(replies, reply_task.answer)
    /\ reply_task' = [reply_task EXCEPT !.status = "done"]
    /\ UNCHANGED <<global_devices, request, outcome, parameters, mqtt_task,
                   published, call, trace>>

\* The task _send_mqtt_commands starts and runs to its first publish call.
SendMqttCommands ==
    /\ mqtt_task.status = "pending"
    /\ LET step == StartDispatch(mqtt_task, published)
       IN  /\ mqtt_task' = step.task
           /\ published' = step.published
    /\ UNCHANGED <<global_devices, request, outcome, parameters, replies,
                   reply_task, call, trace>>

\* The publish in flight completes, and the loop runs to its next publish.
PublishReturns ==
    /\ mqtt_task.status = "publishing"
    /\ LET step == AfterPublish(mqtt_task, published, "ok")
       IN  /\ mqtt_task' = step.task
           /\ published' = step.published
    /\ UNCHANGED <<global_devices, request, outcome, parameters, replies,
                   reply_task, call, trace>>

\* A faulty PublishFails: the failure is also reported to the user.
PublishFails_error_reply ==
    /\ mqtt_task.status = "publishing"
    /\ LET step == AfterPublish(mqtt_task, published, "failed")
       IN  /\ mqtt_task' = step.task
           /\ published' = step.published
    /\ replies' = Append(replies, Text(APOLOGY_TEXT))
    /\ UNCHANGED <<global_devices, request, outcome, parameters, reply_task, call,
                   trace>>

\* The publish in flight raises; the exception is caught and logged.
PublishFails ==
    /\ mqtt_task.status = "publishing"
    /\ LET step == AfterPublish(mqtt_task, published, "failed")
       IN  /\ mqtt_task' = step.task
           /\ published' = step.published
    /\ UNCHANGED <<global_devices, request, outcome, parameters, replies,
                   reply_task, call, trace>>

\* The publish in flight never completes.
PublishHangs ==
    /\ mqtt_task.status = "publishing"
    /\ mqtt_task' = [mqtt_task EXCEPT !.status = "hung"]
    /\ UNCHANGED <<global_devices, request, outcome, parameters, replies,
                   reply_task, published, call, trace>>

Next ==
    \/ Refresh
    \/ process_request
    \/ SendResponse
    \/ SendMqttCommands
    \/ PublishReturns
    \/ PublishFails
    \/ PublishHangs

Spec == Init /\ [][Next]_vars

\* The event loop runs every task that add_task has scheduled, and a publish
\* in flight eventually returns, raises, or is known never to complete.
SpecFair ==
    /\ Spec
    /\ WF_vars(SendResponse)
    /\ WF_vars(SendMqttCommands)
    /\ WF_vars(PublishReturns \/ PublishFails \/ PublishHangs)

(***************************************************************************)
(* Direct calls of the skill's methods, as the unit tests make them.       *)
(***************************************************************************)
RouterIdle ==
    UNCHANGED <<global_devices, request, outcome, parameters, replies, reply_task,
                mqtt_task, published, trace>>

CallGetDevices ==
    /\ Idle
    /\ \E rooms \in SeqsUpTo(AllRooms, MaxRooms) :
          call' = [NoCall EXCEPT !.op = "get_devices", !.rooms = rooms,
                                 !.devices = get_devices(global_devices, rooms)]
    /\ RouterIdle

CallFindParameters ==
    /\ Idle
    /\ \E intent_type \in IntentTypes, entities \in EntityMaps, room \in ClientRooms :
          call' = [NoCall EXCEPT !.op = "find_parameters",
                                 !.intent_type = intent_type,
                                 !.entities = entities,
                                 !.room = room,
                                 !.found = find_parameters(global_devices, intent_type,
                                                           entities, room)]
    /\ RouterIdle

CallIsClimateIntent ==
    /\ Idle
    /\ \E entities \in EntityMaps :
          call' = [NoCall EXCEPT !.op = "_is_climate_intent",
                                 !.intent_type = DEVICE_SET,
                                 !.entities = entities,
                                 !.climate = _is_climate_intent(entities)]
    /\ RouterIdle

\* _render_response(intent_type, parameters) with parameters as the resolver
\* builds them: a setpoint, rooms, and the devices of those rooms.
CallRenderResponse ==
    /\ Idle
    /\ \E intent_type \in IntentTypes, temperature \in {0, 22},
          rooms \in SeqsUpTo(AllRooms, MaxRooms) :
          LET params == [temperature |-> temperature,
                         targets |-> get_devices(global_devices, rooms),
                         rooms |-> rooms]
          IN  call' = [NoCall EXCEPT !.op = "_render_response",
                                     !.intent_type = intent_type,
                                     !.parameters = params,
                                     !.answer = _render_response(intent_type, params)]
    /\ RouterIdle

RefreshApi ==
    /\ Idle
    /\ \E registry \in Registries : global_devices' = registry
    /\ UNCHANGED <<request, outcome, parameters, replies, reply_task, mqtt_task,
                   published, call, trace>>

NextApi ==
    \/ RefreshApi
    \/ CallGetDevices
    \/ CallFindParameters
    \/ CallIsClimateIntent
    \/ CallRenderResponse

SpecApi == Init /\ [][NextApi]_vars

(***************************************************************************)
(* A registry refresh triggered while a device lookup is in flight.        *)
(***************************************************************************)
LookupDuringRefresh ==
    /\ Idle
    /\ \E new \in Registries, rooms \in SeqsUpTo(RoomNames, MaxRooms) :
          \E seen \in SnapshotsSeen(global_devices, new) :
              /\ call' = [NoCall EXCEPT !.op = "get_devices",
                                        !.rooms = rooms,
                                        !.old = global_devices,
                                        !.new = new,
                                        !.devices = get_devices(seen, rooms)]
              /\ global_devices' = new
    /\ UNCHANGED <<request, outcome, parameters, replies, reply_task, mqtt_task,
                   published, trace>>

NextRefresh ==
    \/ RefreshApi
    \/ LookupDuringRefresh

SpecRefresh == Init /\ [][NextRefresh]_vars

(***************************************************************************)
(* The same intent resolved twice, the registry unchanged in between.      *)
(***************************************************************************)
CallFindParametersTwice ==
    /\ Idle
    /\ \E intent_type \in IntentTypes, entities \in EntityMaps, room \in ClientRooms :
          LET first == find_parameters(global_devices, intent_type, entities, room)
          IN  call' = [NoCall EXCEPT !.op = "find_parameters twice",
                                     !.intent_type = intent_type,
                                     !.entities = entities,
                                     !.room = room,
                                     !.found = first,
                                     !.again = find_parameters_again(
                                                   first, global_devices, intent_type,
                                                   entities, room)]
    /\ RouterIdle

NextTwice ==
    \/ RefreshApi
    \/ CallFindParametersTwice

SpecTwice == Init /\ [][NextTwice]_vars

(***************************************************************************)
(* The dispatcher invoked directly, with parameters as the resolver builds *)
(* them: a setpoint, rooms, and the devices of those rooms (possibly       *)
(* none).                                                                  *)
(***************************************************************************)
CallSendMqttCommands ==
    /\ Idle
    /\ \E intent_type \in IntentTypes, temperature \in {0, 22},
          rooms \in SeqsUpTo(AllRooms, MaxRooms) :
          LET params == [temperature |-> temperature,
                         targets |-> get_devices(global_devices, rooms),
                         rooms |-> rooms]
          IN  /\ call' = [NoCall EXCEPT !.op = "_send_mqtt_commands",
                                        !.intent_type = intent_type,
                                        !.parameters = params]
              /\ mqtt_task' = MqttTask(intent_type, params)
    /\ UNCHANGED <<global_devices, request, outcome, parameters, replies, reply_task,
                   published, trace>>

NextDispatch ==
    \/ RefreshApi
    \/ CallSendMqttCommands
    \/ SendMqttCommands
    \/ PublishReturns
    \/ PublishFails
    \/ PublishHangs

SpecDispatch == Init /\ [][NextDispatch]_vars

(***************************************************************************)
(* Start of the skill: ClimateSkill(...) is constructed with a template    *)
(* environment, and an instance that exists serves requests.               *)
(***************************************************************************)
Construct ==
    /\ Idle
    /\ \E template_env \in TemplateEnvs :
          call' = [NoCall EXCEPT !.op = "__init__",
                                 !.template_env = template_env,
                                 !.skill = _load_templates(template_env)]
    /\ RouterIdle

\* process_request on the instance that the construction returned.
ServeRequest ==
    /\ call.op = "__init__"
    /\ call.skill.ok
    /\ request = NoRequest
    /\ \E intent_request \in Requests :
          LET effect == Route(global_devices, intent_request)
          IN  /\ request' = intent_request
              /\ outcome' = effect.outcome
              /\ parameters' = effect.parameters
              /\ replies' = effect.replies
              /\ reply_task' = effect.reply_task
              /\ mqtt_task' = effect.mqtt_task
              /\ trace' = effect.trace
    /\ published' = <<>>
    /\ UNCHANGED <<global_devices, call>>

NextStart ==
    \/ Construct
    \/ ServeRequest
    \/ SendResponse

SpecStart == Init /\ [][NextStart]_vars

(***************************************************************************)
(* Direct constructions of a device, as tests/test_models.py makes them,   *)
(* and through from_global_device on a registry record with that topic.    *)
(***************************************************************************)
\* ClimateSkillDevice(topic=topic, alias="Climate", room="Room").
ConstructDevice ==
    /\ Idle
    /\ \E topic \in Topics :
          call' = [NoCall EXCEPT !.op = "ClimateSkillDevice",
                                 !.topic = topic,
                                 !.built = ClimateSkillDevice(topic, "Climate", "Room",
                                                              DefaultPayloadTemplate)]
    /\ RouterIdle

\* ClimateSkillDevice.from_global_device(record) on a record of a room.
CallFromGlobalDevice ==
    /\ Idle
    /\ \E topic \in Topics, room \in RoomNames :
          call' = [NoCall EXCEPT !.op = "from_global_device",
                                 !.topic = topic,
                                 !.room = room,
                                 !.built = from_global_device(
                                     GlobalDevice("Climate", room, topic, FALSE, <<>>))]
    /\ RouterIdle

\* skill.global_devices = [...] with records of every kind of topic.
SetGlobalDevices ==
    /\ Idle
    /\ \E registry \in TopicRegistries : global_devices' = registry
    /\ UNCHANGED <<request, outcome, parameters, replies, reply_task, mqtt_task,
                   published, call, trace>>

NextLoad ==
    \/ SetGlobalDevices
    \/ CallGetDevices

SpecLoad == Init /\ [][NextLoad]_vars

NextModels ==
    \/ ConstructDevice
    \/ CallFromGlobalDevice

SpecModels == Init /\ [][NextModels]_vars

(***************************************************************************)
(* Vocabulary of the properties.                                           *)
(***************************************************************************)
\* The registry record can be turned into a device: it has a topic, and the
\* topic passes the validation.
IsValidRecord(global_device) ==
    /\ global_device.topic # <<>>
    /\ \A i \in 1..Len(global_device.topic) : global_device.topic[i] \notin RegexChars
    /\ Len(global_device.topic) <= MAX_TOPIC_LENGTH

\* The device a valid registry record stands for.
AsDevice(global_device) ==
    [topic |-> global_device.topic,
     alias |-> global_device.name,
     room |-> global_device.room,
     payload_set_template |-> IF global_device.has_template
                              THEN global_device.template
                              ELSE DefaultPayloadTemplate]

\* The k-th smallest element of a set of numbers.
Kth(P, k) == CHOOSE x \in P : Cardinality({y \in P : y < x}) = k - 1

\* The registry positions of the valid records whose room is in room_set.
PositionsIn(registry, room_set) ==
    {i \in 1..Len(registry) :
        registry[i].room \in room_set /\ IsValidRecord(registry[i])}

\* The valid devices registered under the rooms of room_set, in registration
\* order.
DevicesOf(registry, room_set) ==
    LET P == PositionsIn(registry, room_set)
    IN  [k \in 1..Cardinality(P) |-> AsDevice(registry[Kth(P, k)])]

\* Every entity of the intent that is a number, whatever key holds it.
NumbersOf(entities) == entities["number"] \o entities["numbers"]

\* Every entity of the intent that is a room, whatever key holds it.
RoomsOf(entities) == entities["room"] \o entities["rooms"]

NothingPublished == published = <<>> /\ mqtt_task.status = "none"

NoReply == replies = <<>> /\ reply_task.status = "none"

\* Exactly one reply was emitted, the fixed text, and none is scheduled.
OnlyReply(text) == replies = <<Text(text)>> /\ reply_task.status = "none"

(***************************************************************************)
(* C1.  A DEVICE_SET request whose only entity signal is a number with a   *)
(* non-temperature unit, with or without a non-climate device entity, gets *)
(* no reply (none sent, none scheduled) and causes no publish, whatever    *)
(* the registry holds.                                                     *)
(***************************************************************************)
IsNonClimateRequest(intent_request) ==
    /\ intent_request.intent_type = DEVICE_SET
    /\ intent_request.entities["number"] # <<>>
    /\ intent_request.entities["numbers"] = <<>>
    /\ \A i \in 1..Len(intent_request.entities["number"]) :
          intent_request.entities["number"][i].metadata.unit \notin TemperatureUnits
    /\ \A i \in 1..Len(intent_request.entities["device"]) :
          intent_request.entities["device"][i].metadata.device_type
              \notin ClimateDeviceTypes

C1_NonClimateIgnored ==
    IsNonClimateRequest(request) => NoReply /\ NothingPublished

(***************************************************************************)
(* C2.  _is_climate_intent is true exactly when the intent carries a       *)
(* device entity of a thermostat/HVAC device type (generic or not) or a    *)
(* number entity with a temperature unit; it is false for a curtain device *)
(* with a brightness number and for a lone brightness number.              *)
(***************************************************************************)
HasClimateDevice(entities) ==
    \E e \in Range(entities["device"]) : e.metadata.device_type \in ClimateDeviceTypes

HasTemperatureNumber(entities) ==
    \E e \in Range(entities["number"]) : e.metadata.unit \in TemperatureUnits

IsBrightnessOnly(entities) ==
    /\ entities["number"] # <<>>
    /\ \A e \in Range(entities["number"]) : e.metadata.unit = "brightness"
    /\ \A e \in Range(entities["device"]) : e.metadata.device_type = "curtain"

HasNoNumber(intent_request) == NumbersOf(intent_request.entities) = <<>>

C4_Original ==
    (/\ request.intent_type = DEVICE_SET
     /\ outcome = "returned"
     /\ HasNoNumber(request))
        => /\ parameters.temperature = 0
           /\ OnlyReply(NO_TEMPERATURE_TEXT)
           /\ NothingPublished

(***************************************************************************)
(* C4, amended.  When process_request returns from a DEVICE_SET request    *)
(* that carries no number entity, the setpoint is the sentinel 0 and       *)
(* nothing is published; the only reply is "please specify a temperature"  *)
(* when the resolved rooms hold at least one device (when they hold none,  *)
(* the missing-devices reply comes first).                                 *)
(***************************************************************************)
C4_NoNumberReply ==
    (/\ request.intent_type = DEVICE_SET
     /\ outcome = "returned"
     /\ HasNoNumber(request))
        => /\ parameters.temperature = 0
           /\ NothingPublished
           /\ parameters.targets # <<>> => OnlyReply(NO_TEMPERATURE_TEXT)

C4_Witness ==
    /\ request.intent_type = DEVICE_SET
    /\ outcome = "returned"
    /\ HasNoNumber(request)
    /\ Len(parameters.targets) = 2
    /\ OnlyReply(NO_TEMPERATURE_TEXT)

(***************************************************************************)
(* C5.  The dispatch of a DEVICE_SET request with a non-zero setpoint t    *)
(* and a non-empty target list publishes to the targets' topics only, in   *)
(* target order, each with qos 1 and with that device's template rendered  *)
(* with t (the default template and t = 22 give                            *)
(* {"occupied_heating_setpoint": 22}); when the dispatch has returned,     *)
(* there is exactly one publish per target.                                *)
(***************************************************************************)
DEFAULT_PAYLOAD_22 == "{\"occupied_heating_setpoint\": 22}"

IsPublishFor(message, device, temperature) ==
    /\ message.topic = device.topic
    /\ message.qos = 1
    /\ message.payload = RenderPayload(device.payload_set_template, temperature).text
    /\ (device.payload_set_template = DefaultPayloadTemplate /\ temperature = 22)
          => message.payload = DEFAULT_PAYLOAD_22

C5_OnePublishPerTarget ==
    (request.intent_type = DEVICE_SET /\ mqtt_task.status # "none") =>
        /\ parameters.temperature # 0
        /\ parameters.targets # <<>>
        /\ Len(published) <= Len(parameters.targets)
        /\ \A i \in 1..Len(published) :
              IsPublishFor(published[i], parameters.targets[i], parameters.temperature)
        /\ mqtt_task.status = "done" => Len(published) = Len(parameters.targets)

C5_Witness ==
    /\ request.intent_type = DEVICE_SET
    /\ mqtt_task.status = "done"
    /\ parameters.temperature = 22
    /\ Len(published) = 2
    /\ published[1].topic # published[2].topic
    /\ published[1].payload = DEFAULT_PAYLOAD_22
    /\ published[2].payload # DEFAULT_PAYLOAD_22

(***************************************************************************)
(* C6.  When the entities hold no room entity, the Parameters returned by  *)
(* find_parameters have rooms = [current_room], and for DEVICE_SET their   *)
(* targets are the devices of current_room.                                *)
(***************************************************************************)
C6_FallbackToCurrentRoom ==
    (/\ call.op = "find_parameters"
     /\ ~call.found.raised
     /\ RoomsOf(call.entities) = <<>>)
        => /\ call.found.parameters.rooms = <<call.room>>
           /\ call.intent_type = DEVICE_SET =>
                 call.found.parameters.targets = DevicesOf(global_devices, {call.room})

C6_Witness ==
    /\ call.op = "find_parameters"
    /\ call.intent_type = DEVICE_SET
    /\ RoomsOf(call.entities) = <<>>
    /\ call.found.parameters.rooms = <<"study">>
    /\ Len(call.found.parameters.targets) = 2
    /\ Len(global_devices) = 3

(***************************************************************************)
(* C7.  When the entities hold one or more entities under the key "room",  *)
(* the Parameters returned by find_parameters have rooms equal to those    *)
(* entities' normalized values, in order, whatever current_room is, and    *)
(* for DEVICE_SET their targets are the devices of those rooms.            *)
(***************************************************************************)
C7_RoomEntitiesGiveRooms ==
    (/\ call.op = "find_parameters"
     /\ ~call.found.raised
     /\ call.entities["room"] # <<>>
     /\ call.entities["rooms"] = <<>>)
        => /\ call.found.parameters.rooms = NormalizedValues(call.entities["room"])
           /\ call.intent_type = DEVICE_SET =>
                 call.found.parameters.targets =
                     DevicesOf(global_devices,
                               Range(NormalizedValues(call.entities["room"])))

(***************************************************************************)
(* C8.  For a DEVICE_SET intent with one or more entities under the key    *)
(* "number", the Parameters returned by find_parameters have a setpoint    *)
(* equal to the integer value of the first such entity, whatever the later *)
(* ones are.                                                               *)
(***************************************************************************)
C8_FirstNumberIsSetpoint ==
    (/\ call.op = "find_parameters"
     /\ call.intent_type = DEVICE_SET
     /\ ~call.found.raised
     /\ call.entities["number"] # <<>>
     /\ call.entities["numbers"] = <<>>
     /\ PyInt(call.entities["number"][1].normalized_value).ok)
        => call.found.parameters.temperature =
               PyInt(call.entities["number"][1].normalized_value).n

(***************************************************************************)
(* C9.  As claimed: get_devices(rooms) orders its result by the caller's   *)
(* room order first (every device of rooms[1] before any device of         *)
(* rooms[2], and so on) and by the registry's order within one room.       *)
(***************************************************************************)
RoomPosition(room, rooms) ==
    CHOOSE i \in 1..Len(rooms) :
        rooms[i] = room /\ \A j \in 1..(i - 1) : rooms[j] # room

RegistryPosition(registry, device) ==
    CHOOSE p \in 1..Len(registry) :
        IsValidRecord(registry[p]) /\ AsDevice(registry[p]) = device

IsFromRegistry(registry, device) ==
    \E p \in 1..Len(registry) :
        IsValidRecord(registry[p]) /\ AsDevice(registry[p]) = device

C9_Original ==
    call.op = "get_devices" =>
        \A i, j \in 1..Len(call.devices) :
            i < j =>
                \/ RoomPosition(call.devices[i].room, call.rooms)
                       < RoomPosition(call.devices[j].room, call.rooms)
                \/ /\ call.devices[i].room = call.devices[j].room
                   /\ RegistryPosition(global_devices, call.devices[i])
                          < RegistryPosition(global_devices, call.devices[j])

(***************************************************************************)
(* C9, amended.  get_devices(rooms) returns its devices in the registry's  *)
(* device order, for every registry and every list of rooms: a device      *)
(* whose record precedes another's in the registry precedes it in the      *)
(* result, whatever the order of rooms.                                    *)
(***************************************************************************)
C9_RegistryOrder ==
    call.op = "get_devices" =>
        /\ \A i \in 1..Len(call.devices) :
              IsFromRegistry(global_devices, call.devices[i])
        /\ \A i, j \in 1..Len(call.devices) :
              i < j => RegistryPosition(global_devices, call.devices[i])
                           < RegistryPosition(global_devices, call.devices[j])

C9_Witness ==
    /\ call.op = "get_devices"
    /\ call.rooms = <<"office", "study">>
    /\ Len(call.devices) = 3
    /\ call.devices[1].room = "study"
    /\ call.devices[2].room = "office"
    /\ call.devices[3].room = "study"

(***************************************************************************)
(* C10.  get_devices([]) returns the empty list; get_devices([room])       *)
(* returns exactly the valid devices registered under room, in             *)
(* registration order; a room no record belongs to yields the empty list.  *)
(***************************************************************************)
RegisteredRooms(registry) == {registry[i].room : i \in 1..Len(registry)}

C10_Lookup ==
    call.op = "get_devices" =>
        /\ call.rooms = <<>> => call.devices = <<>>
        /\ Len(call.rooms) = 1 =>
              call.devices = DevicesOf(global_devices, {call.rooms[1]})
        /\ Range(call.rooms) \cap RegisteredRooms(global_devices) = {} =>
              call.devices = <<>>

C10_Witness ==
    /\ call.op = "get_devices"
    /\ call.rooms = <<"office">>
    /\ Len(call.devices) = 1
    /\ Len(global_devices) = 3
    /\ "study" \in RegisteredRooms(global_devices)
    /\ \E i \in 1..3 :
          global_devices[i].room = "office" /\ ~IsValidRecord(global_devices[i])

(***************************************************************************)
(* C11.  Constructing a ClimateSkillDevice fails with a validation error   *)
(* for every topic that contains a NUL character, any whitespace (leading, *)
(* trailing or inside, a newline included), "#" or "+", or that is longer  *)
(* than 128 characters.                                                    *)
(***************************************************************************)
Constructs == call.op \in {"ClimateSkillDevice", "from_global_device"}

HasChar(topic, chars) == \E i \in 1..Len(topic) : topic[i] \in chars

C11_BadTopicRefused ==
    (/\ Constructs
     /\ \/ HasChar(call.topic, {"NUL", "SP", "LF", "#", "+"})
        \/ Len(call.topic) > 128)
        => ~call.built.ok

\* A topic with a "+" after a legal character was refused, and so was the
\* topic of 129 legal characters.
C11_Witness ==
    /\ call.op = "ClimateSkillDevice"
    /\ \/ call.topic = <<"a", "/", "+">>
       \/ Len(call.topic) = 129
    /\ ~call.built.ok

(***************************************************************************)
(* C12.  For every valid topic, constructing a ClimateSkillDevice succeeds *)
(* and the stored topic equals the input with surrounding whitespace       *)
(* stripped.  As stated, a topic is valid when it holds no NUL, no         *)
(* whitespace, no "#" and no "+" and has at most 128 characters            *)
(* (C12_Original); the construction in fact succeeds for the topics that   *)
(* hold no "$" either (C12_ValidTopicStored).                              *)
(***************************************************************************)
C12_Original ==
    (/\ call.op = "ClimateSkillDevice"
     /\ ~HasChar(call.topic, {"NUL", "SP", "LF", "#", "+"})
     /\ Len(call.topic) <= 128)
        => /\ call.built.ok
           /\ call.built.device.topic = Strip(call.topic)

C12_ValidTopicStored ==
    (/\ call.op = "ClimateSkillDevice"
     /\ ~HasChar(call.topic, {"NUL", "SP", "LF", "#", "+", "$"})
     /\ Len(call.topic) <= 128)
        => /\ call.built.ok
           /\ call.built.device.topic = Strip(call.topic)

\* The topic of exactly 128 legal characters was accepted and stored as it is.
C12_Witness ==
    /\ call.op = "ClimateSkillDevice"
    /\ Len(call.topic) = 128
    /\ call.built.ok
    /\ call.built.device.topic = call.topic

(***************************************************************************)
(* C13.  Every ClimateSkillDevice of a state (a constructed device, a      *)
(* device returned by get_devices, a resolved target, a target of a        *)
(* dispatch), and every topic a publish is addressed to, has a topic with  *)
(* no control character, no whitespace character and no wildcard           *)
(* character, of at most 128 characters.                                   *)
(***************************************************************************)
ControlChars == {"NUL", "LF", "SUB", "DEL"}

WildcardChars == {"#", "+"}

IsCleanTopic(topic) ==
    /\ ~HasChar(topic, ControlChars \cup WhitespaceChars \cup WildcardChars)
    /\ Len(topic) <= 128

ExistingTopics ==
    {call.built.device.topic : ok \in {call.built.ok} \ {FALSE}}
        \cup {call.devices[i].topic : i \in 1..Len(call.devices)}
        \cup {call.found.parameters.targets[i].topic :
                  i \in 1..Len(call.found.parameters.targets)}
        \cup {parameters.targets[i].topic : i \in 1..Len(parameters.targets)}
        \cup {mqtt_task.parameters.targets[i].topic :
                  i \in 1..Len(mqtt_task.parameters.targets)}
        \cup {published[i].topic : i \in 1..Len(published)}

C13_TopicInvariant == \A topic \in ExistingTopics : IsCleanTopic(topic)

(***************************************************************************)
(* C14.  In a dispatch over targets d1..dn whose payloads render, a failed *)
(* publish to a device di is caught and does not stop the batch: once the  *)
(* publish to di has failed, the publish to d(i+1) has been attempted,     *)
(* whatever the results of the other publishes; the task does not raise,   *)
(* and when it has ended, one publish per target has been attempted.       *)
(* (A payload template that fails to render is the subject of C20.)        *)
(***************************************************************************)
PayloadsRender(task) ==
    \A i \in 1..Len(task.parameters.targets) :
        RenderPayload(task.parameters.targets[i].payload_set_template,
                      task.parameters.temperature).ok

C15_HangDoesNotBlock ==
    (mqtt_task.status = "hung")
        ~> (Len(published) = Len(mqtt_task.parameters.targets))

(***************************************************************************)
(* C16.  While get_devices loads the devices of a set of rooms, a registry *)
(* record of those rooms that is invalid (no or an empty "topic", or a     *)
(* topic that fails the validation) is skipped; nothing is raised out of   *)
(* get_devices, and every valid record of the requested rooms, before and  *)
(* after the bad one, is still returned, and nothing else is.              *)
(***************************************************************************)
InRooms(global_device, rooms) == global_device.room \in Range(rooms)

C16_BadRecordSkipped ==
    call.op = "get_devices" =>
        /\ \A i \in 1..Len(global_devices) :
               InRooms(global_devices[i], call.rooms) =>
                   IF IsValidRecord(global_devices[i])
                   THEN AsDevice(global_devices[i]) \in Range(call.devices)
                   ELSE \A k \in 1..Len(call.devices) :
                            call.devices[k].alias # global_devices[i].name
        /\ Len(call.devices) =
               Cardinality(PositionsIn(global_devices, Range(call.rooms)))

\* Between two valid records of the study stand a record whose topic holds
\* a wildcard; the two valid ones were returned.
C16_Witness ==
    /\ call.op = "get_devices"
    /\ call.rooms = <<"study">>
    /\ Len(global_devices) = 3
    /\ \A i \in 1..3 : global_devices[i].room = "study"
    /\ global_devices[1].topic = <<"a">>
    /\ global_devices[2].topic = <<"a", "/", "#">>
    /\ global_devices[3].topic = <<"a">>
    /\ Len(call.devices) = 2
    /\ call.devices[1].alias = "d1"
    /\ call.devices[2].alias = "d3"

(***************************************************************************)
(* C17.  If at least one required response template (help.j2 or            *)
(* set_temperature.j2) cannot be loaded, constructing the skill fails with *)
(* an error and no instance serves a request; a construction that          *)
(* succeeded has loaded a template for SYSTEM_HELP and for DEVICE_SET.     *)
(***************************************************************************)
RequiredTemplates == {"help.j2", "set_temperature.j2"}

C17_TemplatesOrNoSkill ==
    /\ call.op = "__init__" =>
          /\ (\E name \in RequiredTemplates : call.template_env[name] # "ok")
                => /\ ~call.skill.ok
                   /\ call.skill.error # ""
                   /\ request = NoRequest
                   /\ NoReply
          /\ call.skill.ok =>
                /\ DOMAIN call.skill.intent_to_template = {SYSTEM_HELP, DEVICE_SET}
                /\ call.skill.intent_to_template = intent_to_template
    /\ request # NoRequest => (call.op = "__init__" /\ call.skill.ok)

\* help.j2 was loaded, set_temperature.j2 was not found: RuntimeError.
C17_Witness ==
    /\ call.op = "__init__"
    /\ call.template_env["help.j2"] = "ok"
    /\ call.template_env["set_temperature.j2"] = "missing"
    /\ ~call.skill.ok
    /\ call.skill.error = "RuntimeError"
    /\ call.skill.failed = <<"set_temperature.j2">>

(***************************************************************************)
(* C18.  Rendering a reply for an intent type that has no loaded template  *)
(* returns the text "Sorry, I couldn't process your request." and raises   *)
(* nothing; for an intent type with a loaded template it returns the       *)
(* rendering of that template with the parameters of the call.             *)
(***************************************************************************)
C18_RenderOrApology ==
    call.op = "_render_response" =>
        /\ call.intent_type \notin {SYSTEM_HELP, DEVICE_SET} =>
              /\ call.answer.text = "Sorry, I couldn't process your request."
              /\ call.answer.template = ""
        /\ call.intent_type = SYSTEM_HELP =>
              /\ call.answer.template = "help.j2"
              /\ call.answer.parameters = call.parameters
        /\ call.intent_type = DEVICE_SET =>
              /\ call.answer.template = "set_temperature.j2"
              /\ call.answer.parameters = call.parameters

\* DEVICE_ON has no template: the apology, for parameters with a target.
C18_Witness ==
    /\ call.op = "_render_response"
    /\ call.intent_type = DEVICE_ON
    /\ call.parameters.targets # <<>>
    /\ call.answer = Text(APOLOGY_TEXT)

(***************************************************************************)
(* C19.  When the first number entity of a DEVICE_SET intent (under the    *)
(* key "numbers", which the resolver reads, and none under "number") has a *)
(* normalized value that cannot be parsed as a number, the resolver raises *)
(* nothing: it returns parameters whose setpoint is the sentinel 0, with   *)
(* the rooms and the targets resolved as usual.                            *)
(***************************************************************************)
IsUnparsable(entity) == entity.normalized_value.t = "str"

C19_UnparsableNumberIsSentinel ==
    (/\ call.op = "find_parameters"
     /\ call.intent_type = DEVICE_SET
     /\ call.entities["number"] = <<>>
     /\ call.entities["numbers"] # <<>>
     /\ IsUnparsable(call.entities["numbers"][1]))
        => /\ ~call.found.raised
           /\ call.found.parameters.temperature = 0
           /\ call.found.parameters.rooms = ResolveRooms(call.entities, call.room)
           /\ call.found.parameters.targets =
                  get_devices(global_devices, call.found.parameters.rooms)

(***************************************************************************)
(* C20.  No failure inside either unit of work spawned for a request (the  *)
(* reply emission and the device dispatch, the rendering of a device's     *)
(* payload template included) leaves that unit as an uncaught error, and   *)
(* no error propagates out of process_request.                             *)
(***************************************************************************)
C20_NoFailureEscapes ==
    /\ outcome # "raised"
    /\ reply_task.status # "raised"
    /\ mqtt_task.status # "raised"

(***************************************************************************)
(* C21.  For every request whose intent type is neither DEVICE_SET nor     *)
(* SYSTEM_HELP, process_request logs a warning, emits exactly one reply,   *)
(* "I'm not sure how to handle that request.", and performs no device      *)
(* publish and no device lookup.                                           *)
(***************************************************************************)
EventNames == {trace[i].name : i \in 1..Len(trace)}

C21_UnsupportedIntent ==
    (request # NoRequest /\ request.intent_type \notin {DEVICE_SET, SYSTEM_HELP})
        => /\ outcome = "returned"
           /\ trace = <<Event("warning: Unsupported intent type", request)>>
           /\ OnlyReply("I'm not sure how to handle that request.")
           /\ NothingPublished
           /\ "get_devices" \notin EventNames
           /\ parameters = Parameters

\* A DEVICE_ON request for the study, which has a registered device.
C21_Witness ==
    /\ request.intent_type = DEVICE_ON
    /\ request.room = "study"
    /\ \E i \in 1..Len(global_devices) :
          global_devices[i].room = "study" /\ IsValidRecord(global_devices[i])
    /\ replies = <<Text(UNSUPPORTED_TEXT)>>
    /\ published = <<>>

(***************************************************************************)
(* C22.  For every SYSTEM_HELP request, the router renders the help        *)
(* template with parameters whose rooms are [current_room], with no target *)
(* and setpoint 0; exactly one reply is emitted (scheduled, then sent),    *)
(* and nothing is ever published, whatever the registry holds.             *)
(***************************************************************************)
C22_HelpReply ==
    (request # NoRequest /\ request.intent_type = SYSTEM_HELP)
        => LET answer == Rendering("help.j2",
                                   [temperature |-> 0, targets |-> <<>>,
                                    rooms |-> <<request.room>>])
           IN  /\ outcome = "returned"
               /\ parameters = answer.parameters
               /\ NothingPublished
               /\ \/ reply_task = ReplyTask(answer) /\ replies = <<>>
                  \/ /\ reply_task = [ReplyTask(answer) EXCEPT !.status = "done"]
                     /\ replies = <<answer>>

\* A help request from the study that names the office, with a device
\* registered in each of the two rooms; the reply has been sent.
C22_Witness ==
    /\ request.intent_type = SYSTEM_HELP
    /\ request.room = "study"
    /\ request.entities["rooms"] # <<>>
    /\ request.entities["rooms"][1].normalized_value.s = "office"
    /\ \E i, j \in 1..Len(global_devices) :
          /\ global_devices[i].room = "study" /\ IsValidRecord(global_devices[i])
          /\ global_devices[j].room = "office" /\ IsValidRecord(global_devices[j])
    /\ reply_task.status = "done"
    /\ replies = <<Rendering("help.j2", [Parameters EXCEPT !.rooms = <<"study">>])>>

(***************************************************************************)
(* C23.  For a DEVICE_SET request with at least one target device and a    *)
(* non-zero setpoint, the router schedules the reply emission and the      *)
(* device dispatch as two background tasks and returns without waiting for *)
(* either.  Whichever of the two has not run yet can run next (every       *)
(* interleaving is possible); the reply and the publishes are the same in  *)
(* every order, fixed by the parameters; under fairness both tasks         *)
(* eventually run.                                                         *)
(***************************************************************************)
IsDispatching ==
    /\ request # NoRequest
    /\ request.intent_type = DEVICE_SET
    /\ outcome = "returned"
    /\ parameters.targets # <<>>
    /\ parameters.temperature # 0

TwoIndependentTasks ==
    IsDispatching =>
        LET answer == Rendering("set_temperature.j2", parameters)
        IN  /\ reply_task.status \in {"pending", "done"}
            /\ reply_task.answer = answer
            /\ mqtt_task.status # "none"
            /\ mqtt_task.intent_type = DEVICE_SET
            /\ mqtt_task.parameters = parameters
            /\ reply_task.status = "pending" => (replies = <<>> /\ ENABLED SendResponse)
            /\ reply_task.status = "done" => replies = <<answer>>
            /\ mqtt_task.status = "pending" =>
                  (published = <<>> /\ ENABLED SendMqttCommands)
            /\ Len(published) <= Len(parameters.targets)
            /\ \A i \in 1..Len(published) :
                  /\ published[i].topic = parameters.targets[i].topic
                  /\ published[i].payload =
                        RenderPayload(parameters.targets[i].payload_set_template,
                                      parameters.temperature).text

C23_ReplyAndDispatchConcurrent ==
    /\ []TwoIndependentTasks
    /\ IsDispatching ~> (reply_task.status = "done" /\ mqtt_task.status # "pending")

\* The dispatch has published to both targets and ended while the reply is
\* still waiting to be sent.
C23_Witness ==
    /\ IsDispatching
    /\ reply_task.status = "pending"
    /\ replies = <<>>
    /\ mqtt_task.status = "done"
    /\ Len(published) = 2

BranchNames ==
    {"_handle_device_set", "_handle_system_help", "warning: Unsupported intent type"}

IsBranch(event) == event.name \in BranchNames

BranchesTaken == SelectSeq(trace, IsBranch)

C26_OneBranchByIntentType ==
    request # NoRequest =>
        /\ request.intent_type = DEVICE_SET =>
              BranchesTaken = <<Event("_handle_device_set", request)>>
        /\ request.intent_type = SYSTEM_HELP =>
              BranchesTaken = <<Event("_handle_system_help", request)>>

\* The request of test_process_request_routing: DEVICE_SET with one celsius
\* number under "number"; the device-set handler was invoked with it.
C26_Witness ==
    /\ request.intent_type = DEVICE_SET
    /\ Len(request.entities["number"]) = 1
    /\ request.entities["number"][1].normalized_value.n = 22
    /\ request.entities["number"][1].metadata.unit = "celsius"
    /\ request.entities["numbers"] = <<>>
    /\ trace[1] = Event("_handle_device_set", request)

(***************************************************************************)
(* C27.  When the dispatcher is invoked with an empty target list it       *)
(* performs no publish at all and raises no error: it returns at once.     *)
(***************************************************************************)
C27_EmptyTargetsNoOp ==
    (call.op = "_send_mqtt_commands" /\ call.parameters.targets = <<>>)
        => /\ published = <<>>
           /\ mqtt_task.status \in {"pending", "done"}

\* The dispatcher was invoked for DEVICE_SET with setpoint 22 and no target,
\* and has ended.
C27_Witness ==
    /\ call.op = "_send_mqtt_commands"
    /\ call.intent_type = DEVICE_SET
    /\ call.parameters.temperature = 22
    /\ call.parameters.targets = <<>>
    /\ mqtt_task.status = "done"
    /\ published = <<>>

(***************************************************************************)
(* C28.  For every intent type, DEVICE_SET or not, the targets of the      *)
(* parameters that find_parameters returns are get_devices(rooms) for the  *)
(* rooms it resolved.                                                      *)
(***************************************************************************)
C28_TargetsForEveryIntent ==
    (call.op = "find_parameters" /\ ~call.found.raised)
        => call.found.parameters.targets =
               get_devices(global_devices, call.found.parameters.rooms)

(***************************************************************************)
(* C29.  For every intent type, every entity mapping (an empty list under  *)
(* the room category included) and every current room, the rooms list of  *)
(* the parameters that find_parameters returns is non-empty.               *)
(***************************************************************************)
C29_RoomsNonEmpty ==
    (call.op = "find_parameters" /\ ~call.found.raised)
        => /\ call.found.parameters.rooms # <<>>
           /\ Len(call.found.parameters.rooms) >=
                  IF call.entities["rooms"] = <<>> THEN 1 ELSE Len(call.entities["rooms"])

\* SYSTEM_HELP with an empty list under "rooms" and under "room", from the
\* garage: the rooms are the garage alone.
C29_Witness ==
    /\ call.op = "find_parameters"
    /\ call.intent_type = SYSTEM_HELP
    /\ call.entities["rooms"] = <<>>
    /\ call.entities["room"] = <<>>
    /\ call.room = "garage"
    /\ ~call.found.raised
    /\ call.found.parameters.rooms = <<"garage">>

FirstNumberIsZero(intent_request) ==
    /\ intent_request.entities["number"] = <<>>
    /\ intent_request.entities["numbers"] # <<>>
    /\ PyInt(intent_request.entities["numbers"][1].normalized_value).ok
    /\ PyInt(intent_request.entities["numbers"][1].normalized_value).n = 0

C31_ZeroIsNoSetpoint ==
    /\ (/\ request.intent_type = DEVICE_SET
        /\ outcome = "returned"
        /\ FirstNumberIsZero(request)
        /\ parameters.targets # <<>>)
           => /\ parameters.temperature = 0
              /\ OnlyReply("Please specify a temperature to set.")
              /\ NothingPublished
    /\ mqtt_task.status # "none" => mqtt_task.parameters.temperature # 0

\* The number 0 followed by the number 22, for a room with two devices.
C31_Witness ==
    /\ request.intent_type = DEVICE_SET
    /\ FirstNumberIsZero(request)
    /\ Len(request.entities["numbers"]) = 2
    /\ request.entities["numbers"][2].normalized_value.n = 22
    /\ Len(parameters.targets) = 2
    /\ replies = <<Text(NO_TEMPERATURE_TEXT)>>
    /\ mqtt_task.status = "none"

(***************************************************************************)
(* C32.  Every process_request call that returns without raising issues    *)
(* exactly one reply for its request, never zero and never two: a reply    *)
(* awaited directly in the not-found, no-setpoint and unsupported          *)
(* branches, a reply scheduled as a task (and sent once when the task      *)
(* runs) in the success and help branches.                                 *)
(***************************************************************************)
RepliesIssued == Len(replies) + (IF reply_task.status = "pending" THEN 1 ELSE 0)

IsScheduledBranch ==
    \/ request.intent_type = SYSTEM_HELP
    \/ /\ request.intent_type = DEVICE_SET
       /\ parameters.targets # <<>>
       /\ parameters.temperature # 0

TracePositions(name) == {i \in 1..Len(trace) : trace[i].name = name}

C33_PublishOnlyAfterScheduling ==
    (mqtt_task.status # "none" \/ published # <<>>)
        => /\ request.intent_type = DEVICE_SET
           /\ outcome = "returned"
           /\ parameters.targets # <<>>
           /\ parameters.temperature # 0
           /\ \A i \in 1..Len(published) :
                  \E k \in 1..Len(parameters.targets) :
                      published[i].topic = parameters.targets[k].topic
           /\ reply_task.status # "none"
           /\ reply_task.answer = Rendering("set_temperature.j2", parameters)
           /\ \E r \in TracePositions("add_task send_response") :
                  \A d \in TracePositions("add_task _send_mqtt_commands") : r < d
           /\ TracePositions("add_task _send_mqtt_commands") # {}

\* A publish is in flight to the second of two targets while the reply is
\* scheduled and not yet sent.
C33_Witness ==
    /\ mqtt_task.status = "publishing"
    /\ Len(published) = 2
    /\ published[2].topic = parameters.targets[2].topic
    /\ published[2].result = "inflight"
    /\ reply_task.status = "pending"
    /\ parameters.temperature = 22

(***************************************************************************)
(* C34.  Within one dispatch, publishes are issued strictly in target-list *)
(* order and one at a time: the publish to the device at position i + 1 is *)
(* not started until the publish to the device at position i has          *)
(* completed or failed.                                                    *)
(***************************************************************************)
C34_OnePublishAtATime ==
    /\ Len(published) <= Len(mqtt_task.parameters.targets)
    /\ \A i \in 1..Len(published) :
          /\ published[i].topic = mqtt_task.parameters.targets[i].topic
          /\ i < Len(published) => published[i].result \in {"ok", "failed"}
    /\ (published # <<>> /\ published[Len(published)].result = "inflight")
          => mqtt_task.status \in {"publishing", "hung"}

\* The publish to the first target has failed and the publish to the second
\* is in flight.
C34_Witness ==
    /\ Len(mqtt_task.parameters.targets) = 2
    /\ Len(published) = 2
    /\ published[1].result = "failed"
    /\ published[2].result = "inflight"
    /\ mqtt_task.status = "publishing"

(***************************************************************************)
(* C35.  get_devices(rooms) returns a subsequence of the registry list:    *)
(* each registry record appears at most once in the result even when rooms *)
(* names the same room several times, the result keeps the registry order, *)
(* and a record that has no room is never returned.                        *)
(***************************************************************************)
IsIncreasing(f) == \A a, b \in DOMAIN f : a < b => f[a] < f[b]

C35_SubsequenceOfRegistry ==
    call.op = "get_devices" =>
        \E f \in [1..Len(call.devices) -> 1..Len(global_devices)] :
            /\ IsIncreasing(f)
            /\ \A k \in 1..Len(call.devices) :
                  /\ global_devices[f[k]].room # NoRoom
                  /\ call.devices[k] = AsDevice(global_devices[f[k]])

\* The study is named twice; the registry holds its two devices around the
\* record without a room, and each was returned once.
C35_Witness ==
    /\ call.op = "get_devices"
    /\ call.rooms = <<"study", "study">>
    /\ Len(global_devices) = 3
    /\ global_devices[1].room = "study"
    /\ global_devices[2].room = NoRoom
    /\ global_devices[3].room = "study"
    /\ call.devices = <<AsDevice(global_devices[1]), AsDevice(global_devices[3])>>

(***************************************************************************)
(* C36.  The confirmation reply of a successful DEVICE_SET request does    *)
(* not depend on the outcome of the dispatch: the reply is the rendering   *)
(* of the confirmation template with the parameters, whether all, some or  *)
(* none of the publishes fail, and no step in which a publish fails adds a *)
(* reply or changes the scheduled one.                                     *)
(***************************************************************************)
FailedPublishes == {i \in 1..Len(published) : published[i].result = "failed"}

ConfirmationOnly ==
    IsDispatching =>
        /\ reply_task.answer = Rendering("set_temperature.j2", parameters)
        /\ replies \in {<<>>, <<reply_task.answer>>}
        /\ replies = <<>> <=> reply_task.status = "pending"

C36_ReplyIndependentOfDispatch ==
    /\ []ConfirmationOnly
    /\ [][FailedPublishes' # FailedPublishes
             => (replies' = replies /\ reply_task' = reply_task)]_vars

\* Both publishes failed; the confirmation has been sent all the same.
C36_Witness ==
    /\ IsDispatching
    /\ mqtt_task.status = "done"
    /\ FailedPublishes = {1, 2}
    /\ replies = <<Rendering("set_temperature.j2", parameters)>>

(***************************************************************************)
(* C37.  Request processing never changes the device registry: every step  *)
(* of process_request (with get_devices and find_parameters), of the reply *)
(* task and of the dispatcher leaves the registry list, its records and    *)
(* their order, as it was; only a refresh replaces it.                     *)
(***************************************************************************)
IsProcessingStep ==
    \/ request' # request
    \/ outcome' # outcome
    \/ parameters' # parameters
    \/ replies' # replies
    \/ reply_task' # reply_task
    \/ mqtt_task' # mqtt_task
    \/ published' # published
    \/ trace' # trace
    \/ call' # call

C37_RegistryUnchanged ==
    [][/\ IsProcessingStep => global_devices' = global_devices
       /\ global_devices' # global_devices => Refresh]_vars

\* A dispatch to the two devices of a registry of three records has ended;
\* the targets are still the devices of the registry.
C37_Witness ==
    /\ Len(global_devices) = 3
    /\ request.intent_type = DEVICE_SET
    /\ mqtt_task.status = "done"
    /\ Len(published) = 2
    /\ reply_task.status = "done"
    /\ parameters.targets = DevicesOf(global_devices, Range(parameters.rooms))

(***************************************************************************)
(* C38.  When the dispatcher is invoked with an intent type other than     *)
(* DEVICE_SET and a non-empty target list, it publishes to no device: each *)
(* target is skipped with an error log, and the call returns normally.     *)
(***************************************************************************)
C38_OtherIntentPublishesNothing ==
    (/\ call.op = "_send_mqtt_commands"
     /\ call.intent_type # DEVICE_SET
     /\ call.parameters.targets # <<>>)
        => /\ published = <<>>
           /\ mqtt_task.status \in {"pending", "done"}
           /\ mqtt_task.status = "done" =>
                  mqtt_task.errors =
                      [i \in 1..Len(call.parameters.targets) |->
                          "Unknown intent type for MQTT command"]

\* The dispatcher was invoked for SYSTEM_HELP with two targets, one of them
\* with a payload template that cannot be rendered, and has ended.
C38_Witness ==
    /\ call.op = "_send_mqtt_commands"
    /\ call.intent_type = SYSTEM_HELP
    /\ Len(call.parameters.targets) = 2
    /\ \E i \in 1..2 :
          call.parameters.targets[i].payload_set_template = BrokenPayloadTemplate
    /\ mqtt_task.status = "done"
    /\ Len(mqtt_task.errors) = 2
    /\ published = <<>>

====
